---- MODULE Spec2Model ----
(***************************************************************************)
(* Model of the Korean Classroom VR chat system: js/ai-chat.js (the smart  *)
(* response AIChat), its earlier WebLLM variant, and the NPC manager.      *)
(*                                                                         *)
(* Strings the code inspects (user messages, voice names, languages) are   *)
(* sequences of one-character strings; a character outside ASCII is the    *)
(* one-element string of its code point ("U+C548").  Strings the code only *)
(* passes around (response texts, greetings) are records naming their      *)
(* place in the source tables.                                             *)
(***************************************************************************)
EXTENDS Integers, Sequences, FiniteSets, TLC

----------------------------------------------------------------------------
(* Strings *)

\* the lower-case letter of each upper-case letter
LowerOf ==
  [ A |-> "a", B |-> "b", C |-> "c", D |-> "d", E |-> "e", F |-> "f",
    G |-> "g", H |-> "h", I |-> "i", J |-> "j", K |-> "k", L |-> "l",
    M |-> "m", N |-> "n", O |-> "o", P |-> "p", Q |-> "q", R |-> "r",
    S |-> "s", T |-> "t", U |-> "u", V |-> "v", W |-> "w", X |-> "x",
    Y |-> "y", Z |-> "z" ]

Range(s) == { s[i] : i \in DOMAIN s }

\* \w of a JavaScript regular expression without the u flag: [A-Za-z0-9_]
WordChars ==
  { "A", "B", "C", "D", "E", "F", "G", "H", "I", "J", "K", "L", "M",
    "N", "O", "P", "Q", "R", "S", "T", "U", "V", "W", "X", "Y", "Z",
    "a", "b", "c", "d", "e", "f", "g", "h", "i", "j", "k", "l", "m",
    "n", "o", "p", "q", "r", "s", "t", "u", "v", "w", "x", "y", "z",
    "0", "1", "2", "3", "4", "5", "6", "7", "8", "9", "_" }

\* the characters "." does not match
LineTerminators == {"\n", "\r", "U+2028", "U+2029"}

\* the characters String.prototype.trim removes (those the inputs use)
WhiteSpace == {" ", "\t", "\n", "\r"}

ToLowerChar(c) == IF c \in DOMAIN LowerOf THEN LowerOf[c] ELSE c

\* String.prototype.toLowerCase
ToLowerCase(s) == [i \in DOMAIN s |-> ToLowerChar(s[i])]

\* s.substring(i, i + Len(w)) === w, i counted from 0
MatchAt(s, i, w) ==
  /\ i + Len(w) <= Len(s)
  /\ \A k \in 1..Len(w) : s[i + k] = w[k]

\* String.prototype.includes
Includes(s, w) == \E i \in 0..Len(s) : MatchAt(s, i, w)

\* String.prototype.startsWith
StartsWith(s, w) == MatchAt(s, 0, w)

IsWordAt(s, k) == k \in 1..Len(s) /\ s[k] \in WordChars

\* \b between s[i] and s[i+1] (i = 0: before the string, i = Len(s): after)
WordBoundary(s, i) == IsWordAt(s, i) # IsWordAt(s, i + 1)

\* s.match(/\b(w1|w2|...)\b/) is not null
MatchesWords(s, words) ==
  \E w \in words : \E i \in 0..Len(s) :
    /\ MatchAt(s, i, w)
    /\ WordBoundary(s, i)
    /\ WordBoundary(s, i + Len(w))

\* s.match(/\b(w1|w2|...)\b.*\?/) is not null
MatchesWordsThenQuestionMark(s, words) ==
  \E w \in words : \E i \in 0..Len(s) :
    /\ MatchAt(s, i, w)
    /\ WordBoundary(s, i)
    /\ WordBoundary(s, i + Len(w))
    /\ \E q \in (i + Len(w) + 1)..Len(s) :
         /\ s[q] = "?"
         /\ \A j \in (i + Len(w) + 1)..(q - 1) : s[j] \notin LineTerminators

RECURSIVE TrimStart(_)
TrimStart(s) ==
  IF s # <<>> /\ Head(s) \in WhiteSpace THEN TrimStart(Tail(s)) ELSE s

RECURSIVE TrimEnd(_)
TrimEnd(s) ==
  IF s # <<>> /\ s[Len(s)] \in WhiteSpace
  THEN TrimEnd(SubSeq(s, 1, Len(s) - 1))
  ELSE s

\* String.prototype.trim
Trim(s) == TrimEnd(TrimStart(s))

IsPrefix(s, t) == Len(s) <= Len(t) /\ SubSeq(t, 1, Len(s)) = s

----------------------------------------------------------------------------
(* The keyword patterns of generateSmartResponse *)

\* /\b(hi|hello|hey|greetings|U+C548 U+B155)\b/
GreetingWords ==
  {
    <<"h", "i">>,
    <<"h", "e", "l", "l", "o">>,
    <<"h", "e", "y">>,
    <<"g", "r", "e", "e", "t", "i", "n", "g", "s">>,
    <<"U+C548", "U+B155">> }
\* /\b(what|how|why|when|where|who|can you|do you|is it)\b.*\?/
QuestionWords ==
  {
    <<"w", "h", "a", "t">>,
    <<"h", "o", "w">>,
    <<"w", "h", "y">>,
    <<"w", "h", "e", "n">>,
    <<"w", "h", "e", "r", "e">>,
    <<"w", "h", "o">>,
    <<"c", "a", "n", " ", "y", "o", "u">>,
    <<"d", "o", " ", "y", "o", "u">>,
    <<"i", "s", " ", "i", "t">> }
\* /\b(name|who are you|introduce|call you)\b/
NameWords ==
  {
    <<"n", "a", "m", "e">>,
    <<"w", "h", "o", " ", "a", "r", "e", " ", "y", "o", "u">>,
    <<"i", "n", "t", "r", "o", "d", "u", "c", "e">>,
    <<"c", "a", "l", "l", " ", "y", "o", "u">> }
\* /\b(hobby|hobbies|fun|free time|like to do)\b/
HobbyWords ==
  {
    <<"h", "o", "b", "b", "y">>,
    <<"h", "o", "b", "b", "i", "e", "s">>,
    <<"f", "u", "n">>,
    <<"f", "r", "e", "e", " ", "t", "i", "m", "e">>,
    <<"l", "i", "k", "e", " ", "t", "o", " ", "d", "o">> }
\* /\b(how are you|feeling|mood|doing)\b/
FeelingWords ==
  {
    <<"h", "o", "w", " ", "a", "r", "e", " ", "y", "o", "u">>,
    <<"f", "e", "e", "l", "i", "n", "g">>,
    <<"m", "o", "o", "d">>,
    <<"d", "o", "i", "n", "g">> }
\* /\b(school|class|study|learn|exam|test)\b/
SchoolWords ==
  {
    <<"s", "c", "h", "o", "o", "l">>,
    <<"c", "l", "a", "s", "s">>,
    <<"s", "t", "u", "d", "y">>,
    <<"l", "e", "a", "r", "n">>,
    <<"e", "x", "a", "m">>,
    <<"t", "e", "s", "t">> }
\* /\b(draw|art|paint|sketch)\b/
ArtWords ==
  {
    <<"d", "r", "a", "w">>,
    <<"a", "r", "t">>,
    <<"p", "a", "i", "n", "t">>,
    <<"s", "k", "e", "t", "c", "h">> }
\* /\b(joke|funny|laugh|humor)\b/
JokeWords ==
  {
    <<"j", "o", "k", "e">>,
    <<"f", "u", "n", "n", "y">>,
    <<"l", "a", "u", "g", "h">>,
    <<"h", "u", "m", "o", "r">> }

----------------------------------------------------------------------------
(* The personality table of generateSmartResponse *)

NpcIds == {"minjun", "sooyeon", "jihoon", "yuna"}

\* an NPC whose name is not in the tables (npcId is derived from the entity name)
UnknownNpc == "guest"

\* the value of a missing array element, comparable with the texts
Undefined == [npc |-> "undefined", category |-> "undefined", index |-> 0]

\* the response texts of one category: the n strings of the array, in order
Texts(npc, category, n) ==
  [i \in 1..n |-> [npc |-> npc, category |-> category, index |-> i]]

personalities ==
  [ minjun |->
      [ greeting |-> Texts("minjun", "greeting", 2),
        question |-> Texts("minjun", "question", 2),
        name     |-> Texts("minjun", "name", 2),
        hobby    |-> Texts("minjun", "hobby", 2),
        feeling  |-> Texts("minjun", "feeling", 2),
        school   |-> Texts("minjun", "school", 2),
        default  |-> Texts("minjun", "default", 3) ],
    sooyeon |->
      [ greeting |-> Texts("sooyeon", "greeting", 2),
        question |-> Texts("sooyeon", "question", 2),
        name     |-> Texts("sooyeon", "name", 2),
        hobby    |-> Texts("sooyeon", "hobby", 2),
        feeling  |-> Texts("sooyeon", "feeling", 2),
        art      |-> Texts("sooyeon", "art", 2),
        default  |-> Texts("sooyeon", "default", 4) ],
    jihoon |->
      [ greeting |-> Texts("jihoon", "greeting", 2),
        question |-> Texts("jihoon", "question", 2),
        name     |-> Texts("jihoon", "name", 2),
        hobby    |-> Texts("jihoon", "hobby", 2),
        feeling  |-> Texts("jihoon", "feeling", 2),
        joke     |-> Texts("jihoon", "joke", 2),
        default  |-> Texts("jihoon", "default", 4) ],
    yuna |->
      [ greeting |-> Texts("yuna", "greeting", 2),
        question |-> Texts("yuna", "question", 2),
        name     |-> Texts("yuna", "name", 2),
        hobby    |-> Texts("yuna", "hobby", 2),
        feeling  |-> Texts("yuna", "feeling", 2),
        study    |-> Texts("yuna", "study", 2),
        default  |-> Texts("yuna", "default", 4) ] ]

\* Math.random() is drawn from { k / RandomGrain : k \in 0..RandomGrain-1 }
RandomGrain == 12
RandomDraws == 0..(RandomGrain - 1)

\* array[Math.floor(random * array.length)], undefined on an empty array
PickAt(array, k) ==
  IF Len(array) = 0 THEN Undefined ELSE array[((k * Len(array)) \div RandomGrain) + 1]

\* personalities[npcId] || personalities['minjun']
PersonalityOf(npcId) ==
  IF npcId \in DOMAIN personalities
  THEN personalities[npcId]
  ELSE personalities["minjun"]

\* the chain with its first two tests in the other order
SmartCategoryQuestionFirst(lowerMsg, npcId) ==
  IF MatchesWordsThenQuestionMark(lowerMsg, QuestionWords) THEN "question"
  ELSE IF MatchesWords(lowerMsg, GreetingWords) THEN "greeting"
  ELSE IF MatchesWords(lowerMsg, NameWords) THEN "name"
  ELSE IF MatchesWords(lowerMsg, HobbyWords) THEN "hobby"
  ELSE IF MatchesWords(lowerMsg, FeelingWords) THEN "feeling"
  ELSE IF MatchesWords(lowerMsg, SchoolWords)
       THEN (IF npcId = "yuna" THEN "study" ELSE "school")
  ELSE IF MatchesWords(lowerMsg, ArtWords) /\ npcId = "sooyeon" THEN "art"
  ELSE IF MatchesWords(lowerMsg, JokeWords) /\ npcId = "jihoon" THEN "joke"
  ELSE "default"

\* the if / else-if chain that sets category
SmartCategory(lowerMsg, npcId) ==
  IF MatchesWords(lowerMsg, GreetingWords) THEN "greeting"
  ELSE IF MatchesWordsThenQuestionMark(lowerMsg, QuestionWords) THEN "question"
  ELSE IF MatchesWords(lowerMsg, NameWords) THEN "name"
  ELSE IF MatchesWords(lowerMsg, HobbyWords) THEN "hobby"
  ELSE IF MatchesWords(lowerMsg, FeelingWords) THEN "feeling"
  ELSE IF MatchesWords(lowerMsg, SchoolWords)
       THEN (IF npcId = "yuna" THEN "study" ELSE "school")
  ELSE IF MatchesWords(lowerMsg, ArtWords) /\ npcId = "sooyeon" THEN "art"
  ELSE IF MatchesWords(lowerMsg, JokeWords) /\ npcId = "jihoon" THEN "joke"
  ELSE "default"

\* the lookup falling back to an empty array instead of the default one
SmartResponsesNoDefault(npc, category) ==
  IF category \in DOMAIN npc THEN npc[category] ELSE <<>>

\* npc.responses[category] || npc.responses['default']
SmartResponses(npc, category) ==
  IF category \in DOMAIN npc THEN npc[category] ELSE npc["default"]

\* the selection greeting on the first turn of a conversation
SmartSelectionGreetsFirst(userMessage, npcId, conversationHistory) ==
  LET lowerMsg == ToLowerCase(userMessage)
      history  == IF npcId \in DOMAIN conversationHistory
                  THEN conversationHistory[npcId] ELSE <<>>
      npc      == PersonalityOf(npcId)
      category == IF Len(history) = 0 THEN "greeting"
                  ELSE SmartCategory(lowerMsg, npcId)
  IN  [ npcId     |-> npcId,
        category  |-> category,
        responses |-> SmartResponses(npc, category) ]

\* generateSmartResponse after its delay, up to the random draw: the NPC id
\* read from currentNPC, the category and the array the text is drawn from.
\* history is read (conversationHistory[npcId] || []) and not used.
SmartSelection(userMessage, npcId, conversationHistory) ==
  LET lowerMsg == ToLowerCase(userMessage)
      history  == IF npcId \in DOMAIN conversationHistory
                  THEN conversationHistory[npcId] ELSE <<>>
      npc      == PersonalityOf(npcId)
      category == SmartCategory(lowerMsg, npcId)
  IN  [ npcId     |-> npcId,
        category  |-> category,
        responses |-> SmartResponses(npc, category) ]

\* the index scaled by the length of the default array, not of responses
SmartTextDefaultLength(selection, k) ==
  LET n == Len(PersonalityOf(selection.npcId)["default"])
      i == ((k * n) \div RandomGrain) + 1
  IN  IF i <= Len(selection.responses) THEN selection.responses[i] ELSE Undefined

\* the text generateSmartResponse returns when Math.random() gives k / RandomGrain
SmartText(selection, k) == PickAt(selection.responses, k)
\* the user messages generateSmartResponse is run on
SmartMessages ==
  {
    <<"H", "i">>,
    <<"t", "h", "i", "s">>,
    <<"H", "e", "l", "l", "o", " ", "w", "h", "a", "t", "?">>,
    <<"W", "h", "a", "t", " ", "i", "s", " ", "y", "o", "u", "r", " ", "n", "a", "m", "e", "?">>,
    <<"m", "y", " ", "n", "a", "m", "e">>,
    <<"w", "h", "a", "t", " ", "f", "u", "n">>,
    <<"h", "o", "w", " ", "a", "r", "e", " ", "y", "o", "u">>,
    <<"H", "o", "w", " ", "a", "r", "e", " ", "y", "o", "u", "?">>,
    <<"i", " ", "s", "t", "u", "d", "y", " ", "a", "r", "t">>,
    <<"d", "r", "a", "w", " ", "a", " ", "j", "o", "k", "e">>,
    <<"f", "u", "n", "n", "y">>,
    <<"p", "a", "i", "n", "t">>,
    <<"o", "k">>,
    <<"U+C548", "U+B155">>,
    <<"a", "U+C548", "U+B155", "b">>,
    <<"d", "o", "i", "n", "g", " ", "f", "u", "n">>,
    <<"c", "l", "a", "s", "s", "y">>,
    <<"w", "h", "a", "t", "\n", "?">>,
    <<"I", "s", " ", "i", "t", " ", "a", "r", "t", "?">>,
    <<"T", "E", "S", "T">> }

----------------------------------------------------------------------------
(* Voice selection of speak *)

\* the voices speechSynthesis.getVoices() may list: name and lang
VoiceGoogleFemale ==
  [ name |-> <<"G", "o", "o", "g", "l", "e", " ", "U", "K", " ", "E", "n", "g", "l", "i", "s", "h", " ", "F", "e", "m", "a", "l", "e">>,
    lang |-> <<"e", "n", "-", "G", "B">> ]
VoiceGoogleMale ==
  [ name |-> <<"G", "o", "o", "g", "l", "e", " ", "U", "K", " ", "E", "n", "g", "l", "i", "s", "h", " ", "M", "a", "l", "e">>,
    lang |-> <<"e", "n", "-", "G", "B">> ]
VoiceGoogleUS ==
  [ name |-> <<"G", "o", "o", "g", "l", "e", " ", "U", "S", " ", "E", "n", "g", "l", "i", "s", "h">>,
    lang |-> <<"e", "n", "-", "U", "S">> ]
VoiceZiraFemale ==
  [ name |-> <<"Z", "i", "r", "a", " ", "F", "e", "m", "a", "l", "e">>,
    lang |-> <<"d", "e", "-", "D", "E">> ]
VoiceDavidMale ==
  [ name |-> <<"D", "a", "v", "i", "d", " ", "M", "a", "l", "e">>,
    lang |-> <<"f", "r", "-", "F", "R">> ]
VoiceSamantha ==
  [ name |-> <<"S", "a", "m", "a", "n", "t", "h", "a">>,
    lang |-> <<"e", "n", "-", "U", "S">> ]
VoiceDaniel ==
  [ name |-> <<"D", "a", "n", "i", "e", "l">>,
    lang |-> <<"e", "n", "-", "G", "B">> ]
VoiceEnglishFemale ==
  [ name |-> <<"e", "n", "g", "l", "i", "s", "h", " ", "f", "e", "m", "a", "l", "e">>,
    lang |-> <<"e", "n", "-", "U", "S">> ]
VoiceEnglishMale ==
  [ name |-> <<"e", "n", "g", "l", "i", "s", "h", " ", "m", "a", "l", "e">>,
    lang |-> <<"e", "n", "-", "U", "S">> ]

VoiceCatalogue ==
  { VoiceGoogleFemale, VoiceGoogleMale, VoiceGoogleUS,
    VoiceZiraFemale, VoiceDavidMale, VoiceSamantha,
    VoiceDaniel, VoiceEnglishFemale, VoiceEnglishMale }

\* the strings speak looks for
StrGoogle == <<"G", "o", "o", "g", "l", "e">>
StrLowerFemale == <<"f", "e", "m", "a", "l", "e">>
StrUpperFemale == <<"F", "e", "m", "a", "l", "e">>
StrSamantha == <<"S", "a", "m", "a", "n", "t", "h", "a">>
StrLowerMale == <<"m", "a", "l", "e">>
StrUpperMale == <<"M", "a", "l", "e">>
StrDaniel == <<"D", "a", "n", "i", "e", "l">>
StrEnPrefix == <<"e", "n">>

Null == "null"

\* voices.find(test): <<>> for undefined, <<v>> for the first voice passing
Find(voices, Test(_)) ==
  IF \E i \in DOMAIN voices : Test(voices[i])
  THEN <<voices[CHOOSE i \in DOMAIN voices :
                  Test(voices[i]) /\ \A j \in 1..(i - 1) : ~Test(voices[j])]>>
  ELSE <<>>

\* a || b on voices and undefined
OrElse(a, b) == IF a # <<>> THEN a ELSE b

\* femaleNames.includes(id)
IsFemale(npcId) == npcId \in {"sooyeon", "yuna"}

\* the gendered part of the selection: the chain of four finds
GenderedVoice(voices, isFemale) ==
  IF isFemale
  THEN OrElse(Find(voices, LAMBDA v : Includes(v.name, StrGoogle)
                                      /\ Includes(ToLowerCase(v.name), StrLowerFemale)),
       OrElse(Find(voices, LAMBDA v : Includes(v.name, StrUpperFemale)),
       OrElse(Find(voices, LAMBDA v : Includes(v.name, StrSamantha)),
              Find(voices, LAMBDA v : StartsWith(v.lang, StrEnPrefix)
                                      /\ Includes(v.name, StrLowerFemale)))))
  ELSE OrElse(Find(voices, LAMBDA v : Includes(v.name, StrGoogle)
                                      /\ Includes(ToLowerCase(v.name), StrLowerMale)),
       OrElse(Find(voices, LAMBDA v : Includes(v.name, StrUpperMale)),
       OrElse(Find(voices, LAMBDA v : Includes(v.name, StrDaniel)),
              Find(voices, LAMBDA v : StartsWith(v.lang, StrEnPrefix)
                                      /\ Includes(v.name, StrLowerMale)))))

\* the selection ending with "|| voices[0]": any first voice as a last resort
SelectVoiceAnyFirst(voices, npcId) ==
  LET selectedVoice == GenderedVoice(voices, IsFemale(npcId))
  IN  IF selectedVoice = <<>>
      THEN OrElse(Find(voices, LAMBDA v : StartsWith(v.lang, StrEnPrefix)),
                  SubSeq(voices, 1, 1))
      ELSE selectedVoice

\* selectedVoice of speak for the current NPC id: <<>> when none is found
SelectVoice(voices, npcId) ==
  LET selectedVoice == GenderedVoice(voices, IsFemale(npcId))
  IN  IF selectedVoice = <<>>
      THEN Find(voices, LAMBDA v : StartsWith(v.lang, StrEnPrefix))
      ELSE selectedVoice

\* rate, pitch and volume of a new SpeechSynthesisUtterance, in hundredths
DefaultSetting == 100

\* the switch on the NPC id: rate, pitch and volume in hundredths
VoiceSettings(npcId) ==
  CASE npcId = "minjun"  -> [rate |-> 100, pitch |-> 100, volume |-> DefaultSetting]
    [] npcId = "sooyeon" -> [rate |-> 85,  pitch |-> 115, volume |-> 80]
    [] npcId = "jihoon"  -> [rate |-> 115, pitch |-> 110, volume |-> DefaultSetting]
    [] npcId = "yuna"    -> [rate |-> 100, pitch |-> 105, volume |-> DefaultSetting]
    [] OTHER -> [rate |-> DefaultSetting, pitch |-> DefaultSetting,
                 volume |-> DefaultSetting]

\* the utterance speak(text) hands to speechSynthesis.speak (the voice list is
\* not empty): voice <<>> is a voice left unset
Utterance(text, voices, currentNPC) ==
  IF currentNPC = Null
  THEN [ text |-> text, voice |-> <<>>, rate |-> DefaultSetting,
         pitch |-> DefaultSetting, volume |-> DefaultSetting ]
  ELSE LET settings == VoiceSettings(currentNPC)
       IN  [ text |-> text, voice |-> SelectVoice(voices, currentNPC),
             rate |-> settings.rate, pitch |-> settings.pitch,
             volume |-> settings.volume ]

\* getGreeting(npcId, config) for the NPCs of the table
GreetingText(npcId) == [npc |-> npcId, category |-> "getGreeting", index |-> 1]

\* the fallback string of generateResponse's catch block
FallbackText == [npc |-> Null, category |-> "fallback", index |-> 1]

----------------------------------------------------------------------------
(* State *)

VARIABLES
  \* AIChat (js/ai-chat.js)
  inited,               \* init() has run: the UI elements are held, the listeners set
  currentNPC,           \* the id of this.currentNPC, or Null
  conversationHistory,  \* NPC id -> sequence of [role, content]; no key: undefined
  isGenerating,
  chatInput,            \* the value of the chat input element
  chatMessages,         \* the children of the chat display: [type, content]
  chatUIHidden,         \* the chat UI carries the class 'hidden'
  pending,              \* the generateResponse calls waiting on the timer of
                        \* generateSmartResponse: the user message, and the
                        \* key of the history sendMessage pushed it to
  uncaught,             \* an exception left a handler or rejected its promise
  \* speech synthesis
  voices,               \* speechSynthesis.getVoices()
  voicesLoaded,
  retryTimers,          \* the texts of the pending setTimeout(() => speak(text), 100)
  synthQueue,           \* the utterances the synthesizer holds, the spoken one first
  lastSpeak,            \* the text of the latest call of speak not made by a retry timer
  \* NPCManager and the npc controllers
  activeNPC,
  isActive,
  \* the WebLLM variant
  isLoaded,             \* the engine was created
  llmPending,           \* the requests the engine has not answered yet
  \* the scene and the page (js/main.js)
  inVR,                 \* the scene is in VR mode
  chatUIDisplay,        \* the inline style.display of the chat UI: "" when unset
  \* generateSmartResponse run twice, and speak called once, on chosen inputs
  smartIn,   \* the user message and the current NPC id of two executions
  runA,      \* the first execution of generateSmartResponse: <<>> or <<run>>
  runB,      \* the second execution
  speakIn,   \* a voice list and a current NPC for one call of speak
  speakOut   \* what that call of speak did: <<>> before the call

chatVars == <<inited, currentNPC, conversationHistory, isGenerating, chatInput,
              chatMessages, chatUIHidden, pending, uncaught>>
synthVars == <<voices, voicesLoaded, retryTimers, synthQueue, lastSpeak>>
npcVars == <<activeNPC, isActive>>
mainVars == <<chatVars, synthVars, npcVars>>
smartVars == <<smartIn, runA, runB>>
speakVars == <<speakIn, speakOut>>
llmVars == <<isLoaded, llmPending>>
vrVars == <<inVR, chatUIDisplay>>
vars == <<mainVars, smartVars, speakVars, llmVars, vrVars>>

BoundedSeqs(S, n) == UNION { [1..k -> S] : k \in 0..n }

\* the state of the variables a specification does not use
SmartIdle ==
  /\ smartIn = [userMessage |-> <<>>, npcId |-> UnknownNpc]
  /\ runA = <<>>
  /\ runB = <<>>

SpeakIdle ==
  /\ speakIn = [voices |-> <<>>, currentNPC |-> Null]
  /\ speakOut = <<>>

\* the state after construction (new AIChat(), new NPCManager()), the voice
\* list still empty
MainIdle ==
  /\ inited = FALSE
  /\ currentNPC = Null
  /\ conversationHistory = <<>>
  /\ isGenerating = FALSE
  /\ chatInput = <<>>
  /\ chatMessages = <<>>
  /\ chatUIHidden = TRUE
  /\ pending = <<>>
  /\ uncaught = FALSE
  /\ voices = <<>>
  /\ voicesLoaded = FALSE
  /\ retryTimers = <<>>
  /\ synthQueue = <<>>
  /\ lastSpeak = Null
  /\ activeNPC = Null
  /\ isActive = [n \in NpcIds |-> FALSE]
  /\ isLoaded = FALSE
  /\ llmPending = <<>>
  /\ inVR = FALSE
  /\ chatUIDisplay = ""

----------------------------------------------------------------------------
(* generateSmartResponse run twice on one user message and one NPC id *)

MaxSmartHistory == 1

SmartEntries ==
  { [role |-> "user", content |-> <<"H", "i">>],
    [role |-> "assistant", content |-> personalities["yuna"]["default"][1]] }

\* the conversationHistory objects an execution may find: no entry for the
\* NPC, or a history of at most MaxSmartHistory entries
SmartHistories(npcId) ==
  {<<>>} \cup { npcId :> h : h \in BoundedSeqs(SmartEntries, MaxSmartHistory) }

SmartRun(ch, selection, k) ==
  [ conversationHistory |-> ch,
    selection |-> selection,
    text |-> SmartText(selection, k) ]

InitSmart ==
  /\ smartIn \in [userMessage : SmartMessages, npcId : NpcIds \cup {UnknownNpc}]
  /\ runA = <<>>
  /\ runB = <<>>
  /\ SpeakIdle
  /\ MainIdle

SmartRunFirst ==
  /\ runA = <<>>
  /\ \E ch \in SmartHistories(smartIn.npcId) :
       LET selection == SmartSelection(smartIn.userMessage, smartIn.npcId, ch)
       IN  \E k \in RandomDraws : runA' = <<SmartRun(ch, selection, k)>>
  /\ UNCHANGED <<smartIn, runB, speakVars, mainVars, llmVars, vrVars>>

SmartRunSecond ==
  /\ runB = <<>>
  /\ \E ch \in SmartHistories(smartIn.npcId) :
       LET selection == SmartSelection(smartIn.userMessage, smartIn.npcId, ch)
       IN  \E k \in RandomDraws : runB' = <<SmartRun(ch, selection, k)>>
  /\ UNCHANGED <<smartIn, runA, speakVars, mainVars, llmVars, vrVars>>

NextSmart == SmartRunFirst \/ SmartRunSecond

SpecSmart == InitSmart /\ [][NextSmart]_vars

BothRan == runA # <<>> /\ runB # <<>>


----------------------------------------------------------------------------
(* Claims about generateSmartResponse *)

\* C1 (as stated): two executions of generateSmartResponse with the same
\* user message and the same current NPC id return the same response text.
C1_SameText == BothRan => runA[1].text = runB[1].text

\* C1 (amended): two executions with the same user message and the same
\* current NPC id draw their texts from one and the same response array,
\* each text being an element of the array of the other execution; the
\* element drawn is random and may differ.
C1_SameArray ==
  BothRan =>
    /\ runA[1].text \in Range(runB[1].selection.responses)
    /\ runB[1].text \in Range(runA[1].selection.responses)

\* two executions on the same inputs that returned different texts
C1_Witness == BothRan /\ runA[1].text # runB[1].text

\* C2: two executions that differ only in the contents of conversationHistory
\* select the same category and the same response array.
C2_HistoryIndependent ==
  BothRan =>
    /\ runA[1].selection.category = runB[1].selection.category
    /\ runA[1].selection.responses = runB[1].selection.responses

\* two executions, one with no history for the NPC and one with a history
C2_Witness ==
  /\ BothRan
  /\ runA[1].conversationHistory = <<>>
  /\ runB[1].conversationHistory # <<>>
  /\ Len(runB[1].conversationHistory[smartIn.npcId]) > 0

\* the response table the claim names for an NPC id: its own, minjun's for
\* an id that has none
TableFor(npcId) ==
  IF npcId \in NpcIds THEN personalities[npcId] ELSE personalities.minjun

\* C3: the text returned is an element of the array of the selected category
\* of the NPC's table (minjun's for an unknown id) or of that table's default
\* array, and is never undefined.
C3_TextFromTable ==
  \A run \in Range(runA) \cup Range(runB) :
    LET table == TableFor(smartIn.npcId)
        category == run.selection.category
    IN  /\ run.text # Undefined
        /\ \/ category \in DOMAIN table /\ run.text \in Range(table[category])
           \/ run.text \in Range(table.default)

\* an execution whose category has no array in the NPC's table, and one for
\* an unknown NPC id
C3_Witness ==
  /\ runA # <<>>
  /\ \/ runA[1].selection.category \notin DOMAIN TableFor(smartIn.npcId)
     \/ smartIn.npcId = UnknownNpc /\ runA[1].selection.category = "school"

\* the decision list of the claim: the patterns in order, each with the NPC
\* it is restricted to ("" for none)
C4_Rules(lowerMsg) ==
  << [category |-> "greeting", matches |-> MatchesWords(lowerMsg, GreetingWords), only |-> ""],
     [category |-> "question", matches |-> MatchesWordsThenQuestionMark(lowerMsg, QuestionWords), only |-> ""],
     [category |-> "name", matches |-> MatchesWords(lowerMsg, NameWords), only |-> ""],
     [category |-> "hobby", matches |-> MatchesWords(lowerMsg, HobbyWords), only |-> ""],
     [category |-> "feeling", matches |-> MatchesWords(lowerMsg, FeelingWords), only |-> ""],
     [category |-> "school", matches |-> MatchesWords(lowerMsg, SchoolWords), only |-> ""],
     [category |-> "art", matches |-> MatchesWords(lowerMsg, ArtWords), only |-> "sooyeon"],
     [category |-> "joke", matches |-> MatchesWords(lowerMsg, JokeWords), only |-> "jihoon"] >>

C4_Applies(rule, npcId) == rule.matches /\ rule.only \in {"", npcId}

C4_Expected(lowerMsg, npcId) ==
  LET rules == C4_Rules(lowerMsg)
      hits  == { i \in DOMAIN rules : C4_Applies(rules[i], npcId) }
      first == CHOOSE i \in hits : \A j \in hits : i <= j
  IN  IF hits = {} THEN "default"
      ELSE IF rules[first].category = "school"
           THEN (IF npcId = "yuna" THEN "study" ELSE "school")
           ELSE rules[first].category

\* C4: the category is that of the first rule of the list greeting, question,
\* name, hobby, feeling, school, art, joke that applies to the lowercased
\* message, 'default' if none does; school reads 'study' for yuna; art
\* applies only to sooyeon and joke only to jihoon.
C4_FirstMatch ==
  \A run \in Range(runA) \cup Range(runB) :
    run.selection.category = C4_Expected(ToLowerCase(smartIn.userMessage), smartIn.npcId)

\* an execution on a message that matches both the greeting and the question
\* pattern
C4_Witness ==
  /\ runA # <<>>
  /\ MatchesWords(ToLowerCase(smartIn.userMessage), GreetingWords)
  /\ MatchesWordsThenQuestionMark(ToLowerCase(smartIn.userMessage), QuestionWords)
  /\ runA[1].selection.category = "greeting"

----------------------------------------------------------------------------
(* speak called once on a voice list and a current NPC *)

MaxVoices == 3

\* the lists getVoices() may return: distinct voices, at most MaxVoices
VoiceLists ==
  { l \in BoundedSeqs(VoiceCatalogue, MaxVoices) :
      \A i, j \in DOMAIN l : i # j => l[i] # l[j] }

\* speak(text) from the read of the voice list on: a retry when the list is
\* empty, else the utterance handed to the synthesizer
SpeakOnce(text, voiceList, npc) ==
  IF Len(voiceList) = 0
  THEN [retry |-> TRUE, utterance |-> <<>>]
  ELSE [retry |-> FALSE, utterance |-> <<Utterance(text, voiceList, npc)>>]

InitSpeak ==
  /\ speakIn \in [voices : VoiceLists, currentNPC : NpcIds \cup {Null}]
  /\ speakOut = <<>>
  /\ SmartIdle
  /\ MainIdle

SpeakCall ==
  /\ speakOut = <<>>
  /\ speakOut' = <<SpeakOnce(FallbackText, speakIn.voices, speakIn.currentNPC)>>
  /\ UNCHANGED <<speakIn, smartVars, mainVars, llmVars, vrVars>>

NextSpeak == SpeakCall

SpecSpeak == InitSpeak /\ [][NextSpeak]_vars

\* the five rules of the claim, in priority order, for a female or a male NPC
C9_Satisfies(v, rule, isFemale) ==
  LET lower == IF isFemale THEN StrLowerFemale ELSE StrLowerMale
      upper == IF isFemale THEN StrUpperFemale ELSE StrUpperMale
      named == IF isFemale THEN StrSamantha ELSE StrDaniel
  IN  CASE rule = 1 -> Includes(v.name, StrGoogle) /\ Includes(ToLowerCase(v.name), lower)
        [] rule = 2 -> Includes(v.name, upper)
        [] rule = 3 -> Includes(v.name, named)
        [] rule = 4 -> StartsWith(v.lang, StrEnPrefix) /\ Includes(v.name, lower)
        [] rule = 5 -> StartsWith(v.lang, StrEnPrefix)

C9_Expected(voiceList, npc) ==
  LET isFemale == IsFemale(npc)
      hits(rule) == { i \in DOMAIN voiceList : C9_Satisfies(voiceList[i], rule, isFemale) }
      rules == { rule \in 1..5 : hits(rule) # {} }
      best == CHOOSE rule \in rules : \A r \in rules : rule <= r
      first == CHOOSE i \in hits(best) : \A j \in hits(best) : i <= j
  IN  IF npc = Null \/ rules = {} THEN <<>> ELSE <<voiceList[first]>>

\* C9: the voice of the utterance is the first voice in list order that
\* satisfies the highest-priority rule some voice satisfies; it is left unset
\* when no voice satisfies a rule or no NPC is current.
C9_PrioritizedScan ==
  \A out \in Range(speakOut) :
    ~out.retry => out.utterance[1].voice = C9_Expected(speakIn.voices, speakIn.currentNPC)

\* a female NPC, a list whose first voice satisfies only rule 5 and whose
\* second satisfies rule 3: the second is chosen
C9_Witness ==
  /\ speakOut # <<>>
  /\ speakIn.currentNPC = "yuna"
  /\ Len(speakIn.voices) >= 2
  /\ C9_Satisfies(speakIn.voices[1], 5, TRUE)
  /\ \A r \in 1..4 : \A i \in DOMAIN speakIn.voices :
       C9_Satisfies(speakIn.voices[i], r, TRUE) <=> (r = 3 /\ i = 2)
  /\ speakOut[1].utterance = <<Utterance(FallbackText, speakIn.voices, "yuna")>>
  /\ speakOut[1].utterance[1].voice = <<speakIn.voices[2]>>

----------------------------------------------------------------------------
(* The chat system: AIChat, the synthesizer and the NPC manager *)

MaxSends == 2    \* user messages sent in a run
MaxTimers == 2   \* speak retry timers pending at once

\* the NPCs of the scene the user clicks
SceneNpcs == {"minjun", "sooyeon"}

\* what the user types, and what the recogniser transcribes
TypedInputs ==
  { <<" ", " ">>,
    <<" ", "H", "i", " ">> }
Transcripts ==
  { <<" ", "H", "i", " ">> }

\* the voice lists the browser may load
LoadedVoiceLists ==
  { <<VoiceGoogleFemale, VoiceGoogleMale>> }

ListeningText == [npc |-> Null, category |-> "listening", index |-> 1]
ThinkingText == [npc |-> Null, category |-> "thinking", index |-> 1]

\* conversationHistory[npcId], <<>> when undefined
HistoryOf(ch, npcId) == IF npcId \in DOMAIN ch THEN ch[npcId] ELSE <<>>

\* the number of user entries of all histories
RECURSIVE UserEntries(_, _)
UserEntries(ch, ids) ==
  IF ids = {} THEN 0
  ELSE LET n == CHOOSE x \in ids : TRUE
       IN  Cardinality({ i \in DOMAIN ch[n] : ch[n][i].role = "user" })
           + UserEntries(ch, ids \ {n})

\* addMessageToUI(type, content) on a display
AddMessage(display, type, content) ==
  Append(display, [type |-> type, content |-> content])

RemoveAt(s, i) == SubSeq(s, 1, i - 1) \o SubSeq(s, i + 1, Len(s))

\* loadingMsgEl.remove(): the loading element leaves the display it is in
RemoveLoading(display) ==
  IF \E i \in DOMAIN display : display[i].type = "loading"
  THEN RemoveAt(display, CHOOSE i \in DOMAIN display :
                           /\ display[i].type = "loading"
                           /\ \A j \in 1..(i - 1) : display[j].type # "loading")
  ELSE display

\* onresult: the system messages that say 'Listening' are removed
RECURSIVE RemoveListening(_)
RemoveListening(display) ==
  IF display = <<>> THEN <<>>
  ELSE IF Head(display).type = "system" /\ Head(display).content = ListeningText
       THEN RemoveListening(Tail(display))
       ELSE <<Head(display)>> \o RemoveListening(Tail(display))

\* startConversation: the display cleared and the history shown
ShowHistory(history) ==
  [ i \in DOMAIN history |->
      [ type |-> IF history[i].role = "user" THEN "user" ELSE "npc",
        content |-> history[i].content ] ]

\* setActiveNPC without the deactivation of the previous NPC
SetActiveNPCKeepsPrevious(active, previous, id) ==
  IF id # Null THEN [active EXCEPT ![id] = TRUE] ELSE active

\* NPCManager.setActiveNPC(id) on the controllers' isActive
SetActiveNPC(active, previous, id) ==
  LET deactivated == IF previous # Null
                     THEN [active EXCEPT ![previous] = FALSE] ELSE active
  IN  IF id # Null THEN [deactivated EXCEPT ![id] = TRUE] ELSE deactivated

\* speak(text): the synthesizer's queue and the retry timers after the call.
\* cancel() empties the queue; with no voice listed the call re-arms itself.
QueueAfterSpeak(text, npc) == SpeakOnce(text, voices, npc).utterance
TimersAfterSpeak(text, timers, npc) ==
  IF SpeakOnce(text, voices, npc).retry THEN Append(timers, text) ELSE timers

InitMain ==
  /\ inited = FALSE
  /\ currentNPC = Null
  /\ conversationHistory = <<>>
  /\ isGenerating = FALSE
  /\ chatInput = <<>>
  /\ chatMessages = <<>>
  /\ chatUIHidden = TRUE
  /\ pending = <<>>
  /\ uncaught = FALSE
  /\ voices \in {<<>>} \cup LoadedVoiceLists
  /\ voicesLoaded = (voices # <<>>)
  /\ retryTimers = <<>>
  /\ synthQueue = <<>>
  /\ lastSpeak = Null
  /\ activeNPC = Null
  /\ isActive = [n \in NpcIds |-> FALSE]
  /\ isLoaded = FALSE
  /\ llmPending = <<>>
  /\ inVR = FALSE
  /\ chatUIDisplay = ""
  /\ SmartIdle
  /\ SpeakIdle

\* AIChat.init(): the UI elements are fetched and the listeners registered
AppInit ==
  /\ ~inited
  /\ inited' = TRUE
  /\ UNCHANGED <<currentNPC, conversationHistory, isGenerating, chatInput,
                 chatMessages, chatUIHidden, pending, uncaught,
                 synthVars, npcVars, smartVars, speakVars, llmVars, vrVars>>

\* speechSynthesis.onvoiceschanged: the voice list arrives
VoicesChanged ==
  /\ voices = <<>>
  /\ voices' \in LoadedVoiceLists
  /\ voicesLoaded' = TRUE
  /\ UNCHANGED <<chatVars, retryTimers, synthQueue, lastSpeak, npcVars, smartVars,
                 speakVars, llmVars, vrVars>>

\* startConversation assigning [] to the history without testing for one
StartConversationResets(npcId) ==
  LET history == HistoryOf(conversationHistory, npcId)
      greets  == inited /\ Len(history) = 0
      greeting == GreetingText(npcId)
  IN  /\ currentNPC' = npcId
      /\ conversationHistory' =
           [n \in DOMAIN conversationHistory \cup {npcId} |->
              IF n = npcId THEN <<>> ELSE conversationHistory[n]]
      /\ activeNPC' = npcId
      /\ chatUIHidden' = IF inited THEN FALSE ELSE chatUIHidden
      /\ chatMessages' =
           IF ~inited THEN chatMessages
           ELSE IF greets THEN AddMessage(<<>>, "npc", greeting)
           ELSE ShowHistory(history)
      /\ synthQueue' = IF greets THEN QueueAfterSpeak(greeting, npcId) ELSE synthQueue
      /\ retryTimers' =
           IF greets THEN TimersAfterSpeak(greeting, retryTimers, npcId)
           ELSE retryTimers
      /\ lastSpeak' = IF greets THEN greeting ELSE lastSpeak

\* startConversation greeting whether or not the history is empty
StartConversationAlwaysGreets(npcId) ==
  LET history == HistoryOf(conversationHistory, npcId)
      greeting == GreetingText(npcId)
  IN  /\ currentNPC' = npcId
      /\ conversationHistory' =
           IF npcId \in DOMAIN conversationHistory
           THEN conversationHistory
           ELSE conversationHistory @@ (npcId :> <<>>)
      /\ activeNPC' = npcId
      /\ chatUIHidden' = IF inited THEN FALSE ELSE chatUIHidden
      /\ chatMessages' =
           IF ~inited THEN chatMessages
           ELSE AddMessage(ShowHistory(history), "npc", greeting)
      /\ synthQueue' = IF inited THEN QueueAfterSpeak(greeting, npcId) ELSE synthQueue
      /\ retryTimers' =
           IF inited THEN TimersAfterSpeak(greeting, retryTimers, npcId)
           ELSE retryTimers
      /\ lastSpeak' = IF inited THEN greeting ELSE lastSpeak

\* startConversation(npcId, config), called by onInteract
StartConversation(npcId) ==
  LET history == HistoryOf(conversationHistory, npcId)
      greets  == inited /\ Len(history) = 0
      greeting == GreetingText(npcId)
  IN  /\ currentNPC' = npcId
      /\ conversationHistory' =
           IF npcId \in DOMAIN conversationHistory
           THEN conversationHistory
           ELSE conversationHistory @@ (npcId :> <<>>)
      /\ activeNPC' = npcId
      /\ chatUIHidden' = IF inited THEN FALSE ELSE chatUIHidden
      /\ chatMessages' =
           IF ~inited THEN chatMessages
           ELSE IF greets THEN AddMessage(<<>>, "npc", greeting)
           ELSE ShowHistory(history)
      /\ synthQueue' = IF greets THEN QueueAfterSpeak(greeting, npcId) ELSE synthQueue
      /\ retryTimers' =
           IF greets THEN TimersAfterSpeak(greeting, retryTimers, npcId)
           ELSE retryTimers
      /\ lastSpeak' = IF greets THEN greeting ELSE lastSpeak

\* npc-controller.onInteract: a click on an NPC (or classroomVR.talkTo)
NpcClick ==
  \E npcId \in SceneNpcs :
    /\ (inited /\ voices = <<>> /\ HistoryOf(conversationHistory, npcId) = <<>>)
         => Len(retryTimers) + Len(pending) < MaxTimers
    /\ StartConversation(npcId)
    /\ isActive' = [SetActiveNPC(isActive, activeNPC, npcId) EXCEPT ![npcId] = TRUE]
    /\ UNCHANGED <<inited, isGenerating, chatInput, pending, uncaught,
                   voices, voicesLoaded, smartVars, speakVars, llmVars, vrVars>>

\* endConversation(), run by the Escape key
EndConversation ==
  /\ inited
  /\ isActive' = IF currentNPC # Null
                 THEN SetActiveNPC(isActive, activeNPC, Null) ELSE isActive
  /\ activeNPC' = IF currentNPC # Null THEN Null ELSE activeNPC
  /\ synthQueue' = <<>>
  /\ currentNPC' = Null
  /\ chatUIHidden' = TRUE
  /\ UNCHANGED <<inited, conversationHistory, isGenerating, chatInput,
                 chatMessages, pending, uncaught, voices, voicesLoaded,
                 retryTimers, lastSpeak, smartVars, speakVars, llmVars, vrVars>>

\* the user edits the chat input
TypeInput ==
  /\ inited
  /\ ~chatUIHidden
  /\ \E value \in TypedInputs :
       /\ value # chatInput
       /\ chatInput' = value
  /\ UNCHANGED <<inited, currentNPC, conversationHistory, isGenerating,
                 chatMessages, chatUIHidden, pending, uncaught,
                 synthVars, npcVars, smartVars, speakVars, llmVars, vrVars>>

\* sendMessage() without its test of isGenerating
SendProceedsUnguarded(value) == currentNPC # Null /\ Trim(value) # <<>>

\* sendMessage() does not return early on this input value
SendProceeds(value) == currentNPC # Null /\ ~isGenerating /\ Trim(value) # <<>>

\* sendMessage() with the input holding value and the display as given, up
\* to the first await of generateResponse (the timer of generateSmartResponse)
SendMessage(value, display) ==
  IF ~SendProceeds(value)
  THEN /\ chatInput' = value
       /\ chatMessages' = display
       /\ UNCHANGED <<conversationHistory, isGenerating, pending>>
  ELSE LET message == Trim(value)
       IN  /\ chatInput' = <<>>
           /\ chatMessages' =
                AddMessage(AddMessage(display, "user", message),
                           "loading", ThinkingText)
           /\ conversationHistory' =
                [conversationHistory EXCEPT ![currentNPC] =
                   Append(@, [role |-> "user", content |-> message])]
           /\ isGenerating' = TRUE
           /\ pending' = Append(pending, [userMessage |-> message,
                                          npcId |-> currentNPC])

\* the bounds of a run: sends, and retry timers while no voice is listed
SendAllowed(value) ==
  SendProceeds(value) =>
    /\ UserEntries(conversationHistory, DOMAIN conversationHistory) < MaxSends
    /\ voices = <<>> => Len(retryTimers) + Len(pending) < MaxTimers

\* the send button, or Enter in the input
ClickSend ==
  /\ inited
  /\ SendAllowed(chatInput)
  /\ SendMessage(chatInput, chatMessages)
  /\ UNCHANGED <<inited, currentNPC, chatUIHidden, uncaught,
                 synthVars, npcVars, smartVars, speakVars, llmVars, vrVars>>

\* speechRecognition.onresult with a final transcript
RecognitionResult ==
  /\ inited
  /\ \E transcript \in Transcripts :
       /\ SendAllowed(transcript)
       /\ SendMessage(transcript, RemoveListening(chatMessages))
  /\ UNCHANGED <<inited, currentNPC, chatUIHidden, uncaught,
                 synthVars, npcVars, smartVars, speakVars, llmVars, vrVars>>

\* the try block of generateResponse after the delay, the current NPC set
TryBlock(userMessage, k) ==
  LET selection == SmartSelection(userMessage, currentNPC, conversationHistory)
      response  == SmartText(selection, k)
  IN  /\ chatMessages' = AddMessage(RemoveLoading(chatMessages), "npc", response)
      /\ conversationHistory' =
           [conversationHistory EXCEPT ![currentNPC] =
              Append(@, [role |-> "assistant", content |-> response])]
      /\ synthQueue' = QueueAfterSpeak(response, currentNPC)
      /\ retryTimers' = TimersAfterSpeak(response, retryTimers, currentNPC)
      /\ lastSpeak' = response
      /\ isGenerating' = FALSE
      /\ uncaught' = uncaught

\* generateResponse with no catch block: the error rejects its promise
UncaughtFailure ==
  /\ uncaught' = TRUE
  /\ UNCHANGED <<chatMessages, conversationHistory, synthQueue, retryTimers,
                 lastSpeak, isGenerating>>

\* the catch block of generateResponse: this.currentNPC.id threw
CatchBlock ==
  /\ chatMessages' = AddMessage(RemoveLoading(chatMessages), "npc", FallbackText)
  /\ synthQueue' = QueueAfterSpeak(FallbackText, currentNPC)
  /\ retryTimers' = TimersAfterSpeak(FallbackText, retryTimers, currentNPC)
  /\ lastSpeak' = FallbackText
  /\ isGenerating' = FALSE
  /\ UNCHANGED <<conversationHistory, uncaught>>

\* the timer of generateSmartResponse fires: generateResponse runs to its end
GenerateComplete ==
  \E i \in DOMAIN pending : \E k \in RandomDraws :
    /\ pending' = RemoveAt(pending, i)
    /\ IF currentNPC = Null
       THEN CatchBlock
       ELSE TryBlock(pending[i].userMessage, k)
    /\ UNCHANGED <<inited, currentNPC, chatInput, chatUIHidden,
                   voices, voicesLoaded, npcVars, smartVars, speakVars, llmVars, vrVars>>

\* a retry timer of speak fires: speak(text) again
SpeakRetry ==
  /\ retryTimers # <<>>
  /\ synthQueue' = QueueAfterSpeak(Head(retryTimers), currentNPC)
  /\ retryTimers' = TimersAfterSpeak(Head(retryTimers), Tail(retryTimers), currentNPC)
  /\ UNCHANGED <<chatVars, voices, voicesLoaded, lastSpeak, npcVars, smartVars,
                 speakVars, llmVars, vrVars>>

\* the synthesizer finishes the utterance it speaks
UtteranceEnd ==
  /\ synthQueue # <<>>
  /\ synthQueue' = Tail(synthQueue)
  /\ UNCHANGED <<chatVars, voices, voicesLoaded, retryTimers, lastSpeak, npcVars,
                 smartVars, speakVars, llmVars, vrVars>>

Next ==
  \/ AppInit
  \/ VoicesChanged
  \/ NpcClick
  \/ EndConversation
  \/ TypeInput
  \/ ClickSend
  \/ RecognitionResult
  \/ GenerateComplete
  \/ SpeakRetry
  \/ UtteranceEnd

Spec == InitMain /\ [][Next]_vars

----------------------------------------------------------------------------
(* The chat UI in and out of VR: the handlers of setupVRHandlers *)

\* the state when initializeApp has returned: aiChat.init() has run and the
\* enter-vr and exit-vr handlers are registered
InitVR ==
  /\ inited = TRUE
  /\ currentNPC = Null
  /\ conversationHistory = <<>>
  /\ isGenerating = FALSE
  /\ chatInput = <<>>
  /\ chatMessages = <<>>
  /\ chatUIHidden = TRUE
  /\ pending = <<>>
  /\ uncaught = FALSE
  /\ voices \in {<<>>} \cup LoadedVoiceLists
  /\ voicesLoaded = (voices # <<>>)
  /\ retryTimers = <<>>
  /\ synthQueue = <<>>
  /\ lastSpeak = Null
  /\ activeNPC = Null
  /\ isActive = [n \in NpcIds |-> FALSE]
  /\ isLoaded = FALSE
  /\ llmPending = <<>>
  /\ inVR = FALSE
  /\ chatUIDisplay = ""
  /\ SmartIdle
  /\ SpeakIdle

\* the scene's enter-vr event: the chat UI is hidden by its inline style
EnterVR ==
  /\ ~inVR
  /\ inVR' = TRUE
  /\ chatUIDisplay' = "none"
  /\ UNCHANGED <<mainVars, smartVars, speakVars, llmVars>>

\* the scene's exit-vr event: the chat UI is restored if a conversation is on
ExitVR ==
  /\ inVR
  /\ inVR' = FALSE
  /\ chatUIDisplay' = IF currentNPC # Null THEN "block" ELSE chatUIDisplay
  /\ UNCHANGED <<mainVars, smartVars, speakVars, llmVars>>

NextVR ==
  \/ EnterVR
  \/ ExitVR
  \/ NpcClick
  \/ EndConversation
  \/ VoicesChanged
  \/ SpeakRetry
  \/ UtteranceEnd

SpecVR == InitVR /\ [][NextVR]_vars

----------------------------------------------------------------------------
(* The WebLLM variant of AIChat *)

MaxLLMSends == 4   \* user messages sent in a run

\* what the engine may answer, before trim()
LLMReplies == { <<" ", "O", "k", ".", "\n">> }

SystemPrompt(npcId) == [npc |-> npcId, category |-> "systemPrompt", index |-> 1]
ApproachText(npcId) == [npc |-> npcId, category |-> "approached", index |-> 1]
TroubleText == [npc |-> Null, category |-> "trouble", index |-> 1]

\* the fallbacks table of generateFallbackResponse: three texts per category
fallbacks ==
  [ n \in NpcIds |->
      [ greeting |-> Texts(n, "fallback-greeting", 3),
        question |-> Texts(n, "fallback-question", 3),
        default  |-> Texts(n, "fallback-default", 3) ] ]

\* responseSet of generateFallbackResponse
FallbackResponses(userMessage, npcId) ==
  LET lowerMsg == ToLowerCase(userMessage)
      npcFallbacks == IF npcId \in DOMAIN fallbacks
                      THEN fallbacks[npcId] ELSE fallbacks["minjun"]
  IN  IF \/ Includes(lowerMsg, <<"h", "e", "l", "l", "o">>)
         \/ Includes(lowerMsg, <<"h", "i">>)
         \/ Includes(lowerMsg, <<"h", "e", "y">>)
      THEN npcFallbacks.greeting
      ELSE IF Includes(lowerMsg, <<"?">>) THEN npcFallbacks.question
      ELSE npcFallbacks.default

\* array.slice(-n): the last n elements, all of them when there are fewer
SliceLast(s, n) == SubSeq(s, IF Len(s) > n THEN Len(s) - n + 1 ELSE 1, Len(s))

HistoryWindow == 6

\* the messages array with the history cut by slice(6) in place of slice(-6)
LLMMessagesSliceFrom(userMessage, npcId, ch) ==
  LET history == SubSeq(ch[npcId], HistoryWindow + 1, Len(ch[npcId]))
  IN  <<[role |-> "system", content |-> SystemPrompt(npcId)]>>
      \o [ i \in DOMAIN history |->
             [ role |-> IF history[i].role = "user" THEN "user" ELSE "assistant",
               content |-> history[i].content ] ]
      \o <<[role |-> "user", content |-> userMessage]>>

\* the messages array generateWithLLM hands to engine.chat.completions.create
LLMMessages(userMessage, npcId, ch) ==
  LET history == SliceLast(ch[npcId], HistoryWindow)
  IN  <<[role |-> "system", content |-> SystemPrompt(npcId)]>>
      \o [ i \in DOMAIN history |->
             [ role |-> IF history[i].role = "user" THEN "user" ELSE "assistant",
               content |-> history[i].content ] ]
      \o <<[role |-> "user", content |-> userMessage]>>

\* the voice selection of this variant's speak: voices[0] as a last resort
LLMSelectVoice(voiceList, npcId) ==
  OrElse(Find(voiceList, LAMBDA v :
                /\ Includes(v.lang, StrEnPrefix)
                /\ \/ IsFemale(npcId) /\ Includes(ToLowerCase(v.name), StrLowerFemale)
                   \/ ~IsFemale(npcId) /\ Includes(ToLowerCase(v.name), StrLowerMale)),
  OrElse(Find(voiceList, LAMBDA v : Includes(v.lang, StrEnPrefix)),
         IF voiceList = <<>> THEN <<>> ELSE <<voiceList[1]>>))

\* the utterance of this variant's speak(text): rate 0.9, pitch by NPC
LLMUtterance(text, voiceList, npc) ==
  [ text |-> text,
    voice |-> IF npc = Null THEN <<>> ELSE LLMSelectVoice(voiceList, npc),
    rate |-> 90,
    pitch |-> IF npc = "jihoon" THEN 110 ELSE DefaultSetting,
    volume |-> DefaultSetting ]

InitLLM ==
  /\ inited = FALSE
  /\ currentNPC = Null
  /\ conversationHistory = <<>>
  /\ isGenerating = FALSE
  /\ chatInput = <<>>
  /\ chatMessages = <<>>
  /\ chatUIHidden = TRUE
  /\ pending = <<>>
  /\ uncaught = FALSE
  /\ voices \in {<<>>} \cup LoadedVoiceLists
  /\ voicesLoaded = FALSE
  /\ retryTimers = <<>>
  /\ synthQueue = <<>>
  /\ lastSpeak = Null
  /\ activeNPC = Null
  /\ isActive = [n \in NpcIds |-> FALSE]
  /\ isLoaded = FALSE
  /\ llmPending = <<>>
  /\ inVR = FALSE
  /\ chatUIDisplay = ""
  /\ SmartIdle
  /\ SpeakIdle

\* init(): the UI elements, the listeners, and loadModel, which leaves
\* isLoaded true when the engine was created and false when that failed
LLMAppInit ==
  /\ ~inited
  /\ inited' = TRUE
  /\ isLoaded' \in BOOLEAN
  /\ UNCHANGED <<currentNPC, conversationHistory, isGenerating, chatInput,
                 chatMessages, chatUIHidden, pending, uncaught, llmPending,
                 synthVars, npcVars, smartVars, speakVars, vrVars>>

\* the browser lists its voices
LLMVoicesLoad ==
  /\ voices = <<>>
  /\ voices' \in LoadedVoiceLists
  /\ UNCHANGED <<chatVars, voicesLoaded, retryTimers, synthQueue, lastSpeak,
                 npcVars, llmVars, smartVars, speakVars, vrVars>>

\* onInteract: startConversation(npcId, config), then setActive(true)
LLMNpcClick ==
  \E npcId \in SceneNpcs :
    LET history == HistoryOf(conversationHistory, npcId)
    IN  /\ currentNPC' = npcId
        /\ conversationHistory' =
             IF npcId \in DOMAIN conversationHistory
             THEN conversationHistory
             ELSE conversationHistory @@ (npcId :> <<>>)
        /\ activeNPC' = npcId
        /\ isActive' = [SetActiveNPC(isActive, activeNPC, npcId) EXCEPT ![npcId] = TRUE]
        /\ chatUIHidden' = IF inited THEN FALSE ELSE chatUIHidden
        /\ chatMessages' =
             IF ~inited THEN chatMessages
             ELSE IF Len(history) = 0
                  THEN AddMessage(<<>>, "system", ApproachText(npcId))
                  ELSE ShowHistory(history)
        /\ UNCHANGED <<inited, isGenerating, chatInput, pending, uncaught,
                       synthVars, llmVars, smartVars, speakVars, vrVars>>

\* endConversation(), run by the Escape key
LLMEndConversation ==
  /\ inited
  /\ isActive' = IF currentNPC # Null
                 THEN SetActiveNPC(isActive, activeNPC, Null) ELSE isActive
  /\ activeNPC' = IF currentNPC # Null THEN Null ELSE activeNPC
  /\ currentNPC' = Null
  /\ chatUIHidden' = TRUE
  /\ UNCHANGED <<inited, conversationHistory, isGenerating, chatInput,
                 chatMessages, pending, uncaught, synthVars, llmVars,
                 smartVars, speakVars, vrVars>>

\* sendMessage() on the input value: with the engine loaded, up to the await
\* of the engine's answer; without it, to the end of generateResponse
LLMSendMessage(value) ==
  IF ~SendProceeds(value)
  THEN /\ chatInput' = value
       /\ UNCHANGED <<conversationHistory, isGenerating, chatMessages,
                      llmPending, synthQueue, lastSpeak>>
  ELSE LET message == Trim(value)
           sent == [conversationHistory EXCEPT ![currentNPC] =
                      Append(@, [role |-> "user", content |-> message])]
           shown == AddMessage(chatMessages, "user", message)
       IN  /\ chatInput' = <<>>
           /\ IF isLoaded
              THEN /\ conversationHistory' = sent
                   /\ chatMessages' = AddMessage(shown, "loading", ThinkingText)
                   /\ isGenerating' = TRUE
                   /\ llmPending' =
                        Append(llmPending,
                               [ npcId |-> currentNPC,
                                 userMessage |-> message,
                                 messages |-> LLMMessages(message, currentNPC, sent) ])
                   /\ UNCHANGED <<synthQueue, lastSpeak>>
              ELSE \E k \in RandomDraws :
                     LET response == PickAt(FallbackResponses(message, currentNPC), k)
                     IN  /\ conversationHistory' =
                              [sent EXCEPT ![currentNPC] =
                                 Append(@, [role |-> "assistant", content |-> response])]
                         /\ chatMessages' = AddMessage(shown, "npc", response)
                         /\ synthQueue' = <<LLMUtterance(response, voices, currentNPC)>>
                         /\ lastSpeak' = response
                         /\ isGenerating' = FALSE
                         /\ UNCHANGED llmPending

LLMSendAllowed(value) ==
  SendProceeds(value) =>
    UserEntries(conversationHistory, DOMAIN conversationHistory) < MaxLLMSends

\* the send button, Enter in the input, or a recognised transcript
LLMSend ==
  /\ inited
  /\ \E value \in TypedInputs \cup {chatInput} :
       /\ LLMSendAllowed(value)
       /\ LLMSendMessage(value)
  /\ UNCHANGED <<inited, currentNPC, chatUIHidden, pending, uncaught, isLoaded,
                 voices, voicesLoaded, retryTimers, npcVars, smartVars, speakVars, vrVars>>

\* the engine answers: generateWithLLM returns and generateResponse goes on
LLMReply ==
  \E i \in DOMAIN llmPending : \E reply \in LLMReplies :
    LET response == Trim(reply)
        shown == AddMessage(RemoveLoading(chatMessages), "npc", response)
    IN  /\ llmPending' = RemoveAt(llmPending, i)
        /\ isGenerating' = FALSE
        /\ IF currentNPC = Null
           THEN /\ chatMessages' = AddMessage(shown, "system", TroubleText)
                /\ UNCHANGED <<conversationHistory, synthQueue, lastSpeak>>
           ELSE /\ chatMessages' = shown
                /\ conversationHistory' =
                     [conversationHistory EXCEPT ![currentNPC] =
                        Append(@, [role |-> "assistant", content |-> response])]
                /\ synthQueue' = <<LLMUtterance(response, voices, currentNPC)>>
                /\ lastSpeak' = response
        /\ UNCHANGED <<inited, currentNPC, chatInput, chatUIHidden, pending,
                       uncaught, isLoaded, voices, voicesLoaded, retryTimers,
                       npcVars, smartVars, speakVars, vrVars>>

\* the engine throws: the catch block of generateResponse
LLMError ==
  \E i \in DOMAIN llmPending :
    /\ llmPending' = RemoveAt(llmPending, i)
    /\ isGenerating' = FALSE
    /\ chatMessages' = AddMessage(RemoveLoading(chatMessages), "system", TroubleText)
    /\ UNCHANGED <<inited, currentNPC, conversationHistory, chatInput,
                   chatUIHidden, pending, uncaught, isLoaded, synthVars,
                   npcVars, smartVars, speakVars, vrVars>>

\* the synthesizer finishes the utterance it speaks
LLMUtteranceEnd ==
  /\ synthQueue # <<>>
  /\ synthQueue' = Tail(synthQueue)
  /\ UNCHANGED <<chatVars, voices, voicesLoaded, retryTimers, lastSpeak, npcVars,
                 llmVars, smartVars, speakVars, vrVars>>

NextLLM ==
  \/ LLMAppInit
  \/ LLMVoicesLoad
  \/ LLMNpcClick
  \/ LLMEndConversation
  \/ LLMSend
  \/ LLMReply
  \/ LLMError
  \/ LLMUtteranceEnd

SpecLLM == InitLLM /\ [][NextLLM]_vars

\* C6: the message list of every request to the engine is the NPC's system
\* prompt, then the last min(6, n) entries of that NPC's history (n its
\* length when the request is made, the user message just sent included) in
\* their order and with their roles, then the user message; at most 8
\* messages.
C6_RequestWindow ==
  \A i \in DOMAIN llmPending :
    LET request == llmPending[i]
        history == conversationHistory[request.npcId]
        n == Len(history)
        m == IF n < 6 THEN n ELSE 6
    IN  /\ Len(request.messages) = m + 2
        /\ Len(request.messages) <= 8
        /\ request.messages[1] =
             [role |-> "system", content |-> SystemPrompt(request.npcId)]
        /\ \A j \in 1..m : request.messages[1 + j] = history[n - m + j]
        /\ request.messages[m + 2] =
             [role |-> "user", content |-> request.userMessage]

\* a request made on a history of more than six entries
C6_Witness ==
  \E i \in DOMAIN llmPending :
    /\ Len(conversationHistory[llmPending[i].npcId]) > 6
    /\ Len(llmPending[i].messages) = 8

----------------------------------------------------------------------------
(* Claims about the chat system *)

\* C5: conversation history is append-only: in every step, each NPC's
\* history before the step is a prefix of its history after it (an undefined
\* history counting as empty), so no entry is ever removed, reordered,
\* truncated or reset.
C5_AppendOnly ==
  [][\A n \in NpcIds :
       IsPrefix(HistoryOf(conversationHistory, n),
                HistoryOf(conversationHistory', n))]_vars

\* a conversation that was ended while its response was pending (the last
\* entry is a user entry and nothing is being generated) and then re-opened:
\* the display shows the kept history
C5_Witness ==
  /\ currentNPC # Null
  /\ ~isGenerating
  /\ HistoryOf(conversationHistory, currentNPC) # <<>>
  /\ LET history == conversationHistory[currentNPC]
     IN  /\ history[Len(history)].role = "user"
         /\ chatMessages = ShowHistory(history)

\* C7: when producing the response throws (this.currentNPC is null when the
\* delay ends), the step that ends generateResponse adds the fallback text to
\* the chat display, leaves every history as it was, lets no exception
\* escape, and leaves isGenerating false.
C7_FailureAbsorbed ==
  [][(Len(pending') < Len(pending) /\ currentNPC = Null) =>
       /\ chatMessages' # <<>>
       /\ chatMessages'[Len(chatMessages')] = [type |-> "npc", content |-> FallbackText]
       /\ conversationHistory' = conversationHistory
       /\ ~uncaught'
       /\ ~isGenerating']_vars

\* a generation has failed: the fallback text is on the display
C7_Witness ==
  /\ \E i \in DOMAIN chatMessages : chatMessages[i].content = FallbackText
  /\ ~isGenerating
  /\ pending = <<>>
  /\ ~uncaught

\* C8: while isGenerating is true no step appends a user entry to a history
\* or starts another generation, and at most one generation is in flight.
C8_OneInFlight ==
  [][isGenerating =>
       /\ Len(pending) <= 1
       /\ Len(pending') <= Len(pending)
       /\ UserEntries(conversationHistory', DOMAIN conversationHistory')
            = UserEntries(conversationHistory, DOMAIN conversationHistory)]_vars

\* a generation in flight, a conversation open and a message in the input: a
\* send was asked for and refused
C8_Witness ==
  /\ isGenerating
  /\ Len(pending) = 1
  /\ currentNPC # Null
  /\ Trim(chatInput) # <<>>

\* C10: every utterance the synthesizer holds that speaks a greeting or a
\* response of NPC X has the voice, rate, pitch and volume speak gives X.
C10_VoiceOfSpeaker ==
  \A i \in DOMAIN synthQueue :
    synthQueue[i].text.npc \in NpcIds =>
      synthQueue[i] = Utterance(synthQueue[i].text, voices, synthQueue[i].text.npc)
\* the assistant entries a step appends to the history of an NPC
NewAssistantEntries(n) ==
  LET old == HistoryOf(conversationHistory, n)
      new == HistoryOf(conversationHistory', n)
  IN  { new[i] : i \in { j \in DOMAIN new : j > Len(old) /\ new[j].role = "assistant" } }

\* C11: the assistant response generated for a user message is appended to
\* the history of the NPC whose history received that user message, and is a
\* text of that NPC's personality, whatever startConversation or
\* endConversation did while the response was being generated.
C11_SameNpc ==
  [][\A n \in NpcIds : \A entry \in NewAssistantEntries(n) :
       /\ pending # <<>>
       /\ n = pending[1].npcId
       /\ entry.content.npc = pending[1].npcId]_vars

\* C12: ending a conversation stops NPC speech: from endConversation (which
\* cancels the synthesizer) until the next startConversation the synthesizer
\* is handed no utterance, neither by a response generation in flight nor by
\* a pending retry timer of speak.
C12_SilentWhenEnded == currentNPC = Null => synthQueue = <<>>

\* C13: a later speak request supersedes the earlier ones: what the
\* synthesizer holds is the text of the most recent speak request, never the
\* text of an earlier request passed on after a later one was made, also
\* when the requests were made with the voice list empty and are retried by
\* timer.
C13_LatestSpeakWins ==
  \A i \in DOMAIN synthQueue : synthQueue[i].text = lastSpeak

\* C14: outside VR mode, whenever a conversation is active the chat UI is
\* visible: it lacks the class 'hidden' and its inline display is not 'none',
\* after any sequence of enter-vr, exit-vr, startConversation and
\* endConversation.
C14_VisibleOutsideVR ==
  (~inVR /\ currentNPC # Null) => (~chatUIHidden /\ chatUIDisplay # "none")

\* C15: when startConversation(npcId) runs with the chat display available,
\* the display afterwards holds exactly that NPC's history entries in order
\* (role 'user' shown as user, any other role as npc); the NPC's greeting is
\* displayed and spoken if and only if that history is empty; the greeting
\* is never added to the history.
C15_DisplayAfterStart ==
  [][(NpcClick /\ inited) =>
       LET n == currentNPC'
           h == HistoryOf(conversationHistory, n)
           greeting == GreetingText(n)
           shown == chatMessages'
       IN  /\ conversationHistory'[n] = h
           /\ Len(shown) = IF h = <<>> THEN 1 ELSE Len(h)
           /\ \A i \in DOMAIN h :
                /\ shown[i].content = h[i].content
                /\ shown[i].type = "user" <=> h[i].role = "user"
                /\ shown[i].type = "npc" <=> h[i].role # "user"
           /\ h = <<>> =>
                /\ shown[1] = [type |-> "npc", content |-> greeting]
                /\ lastSpeak' = greeting
                /\ \/ synthQueue' # <<>> /\ synthQueue'[1].text = greeting
                   \/ /\ retryTimers' # <<>>
                      /\ retryTimers'[Len(retryTimers')] = greeting
           /\ h # <<>> =>
                /\ synthQueue' = synthQueue
                /\ retryTimers' = retryTimers
                /\ lastSpeak' = lastSpeak]_vars

\* a conversation opened again while its answer is awaited: the display was
\* rebuilt from the history, without greeting and without loading message
C15_Witness ==
  /\ currentNPC # Null
  /\ isGenerating
  /\ pending # <<>>
  /\ pending[1].npcId = currentNPC
  /\ conversationHistory[currentNPC] # <<>>
  /\ chatMessages = ShowHistory(conversationHistory[currentNPC])

\* C16: voice selection respects the NPC's gender: for a male NPC (minjun,
\* jihoon), whenever the voice list holds a voice whose name contains 'male'
\* but not 'female' (case-insensitively), the selected voice is not one whose
\* lowercased name contains 'female'.
C16_MaleVoiceForMaleNpc ==
  \A out \in Range(speakOut) :
    ( /\ ~out.retry
      /\ speakIn.currentNPC \in {"minjun", "jihoon"}
      /\ \E i \in DOMAIN speakIn.voices :
           /\ Includes(ToLowerCase(speakIn.voices[i].name), StrLowerMale)
           /\ ~Includes(ToLowerCase(speakIn.voices[i].name), StrLowerFemale) )
    => \A v \in Range(out.utterance[1].voice) :
         ~Includes(ToLowerCase(v.name), StrLowerFemale)

\* C17: the controllers with isActive = true are exactly the current NPC's
\* while a conversation is active and none otherwise, and the manager's
\* activeNPC is that id (null when none), after any sequence of NPC clicks,
\* startConversation and endConversation; switching NPC deactivates the
\* previous one.
C17_ActiveIsCurrent ==
  /\ { n \in NpcIds : isActive[n] } = IF currentNPC # Null THEN {currentNPC} ELSE {}
  /\ activeNPC = currentNPC

\* the user talked to minjun and is now talking to sooyeon
C17_Witness ==
  /\ currentNPC = "sooyeon"
  /\ "minjun" \in DOMAIN conversationHistory
  /\ activeNPC = "sooyeon"
  /\ isActive["sooyeon"]
  /\ ~isActive["minjun"]

====
